---------------------------- MODULE Spec2Model ----------------------------
(***************************************************************************)
(* A model of the transaction replayer of src/src/main.rs: the fixed-point *)
(* Money type over i64, the Account operations, Bank::process, the record  *)
(* conversion and the loop of main.                                        *)
(*                                                                         *)
(* An i64 does not fit TLC's 32-bit integers, so a Money value is kept as  *)
(* three limbs <<h, m, l>> standing for h * 10^16 + m * 10^8 + l with      *)
(* 0 <= m, l < 10^8 and h signed.  Every i64 has exactly one such form,    *)
(* the range check of checked_add / checked_sub is a comparison with the   *)
(* limbs of i64::MIN and i64::MAX, and no width is scaled down.            *)
(***************************************************************************)
EXTENDS Integers, Sequences, FiniteSets, TLC

VARIABLES
    accounts,   \* Bank.accounts : ClientId -> Account (a function on the clients seen)
    amounts,    \* Bank.amounts  : TxId -> Money (a function on the ids recorded)
    pc,         \* where main is: "start", "loop", "output", "done", "aborted",
                \* "todo_panic", "stderr_panic", "total_panic"
    i,          \* number of records main has taken from the reader (enumerate's index)
    handled,    \* number of records main has handed to Bank::process
    warnings,   \* number of warnings main has printed (failed process calls)
    rec,        \* the TxRecord of the latest loop iteration
    result,     \* how the latest loop iteration ended
    before,     \* the Bank as it was when the latest iteration began
    prior,      \* the iteration before the latest, when it was a successful Dispute
    scenario,   \* how many records of EndToEnd the input so far matches (-1: it does not)
    deposited,  \* the ids carried by the Deposits that succeeded
    withdrawn,  \* the ids carried by the Withdrawals handed to Bank::process
    referenced, \* the clients named by the transactions handed to Bank::process
    latest,     \* for each id, the client and amount of the latest Deposit of it that succeeded
    net,        \* for each client, its successful Deposits less its successful Withdrawals and Chargebacks
    emitted,    \* the AccountRecords main has written
    calc        \* a computation on Money values carried out on its own

\* What the model remembers of the calls of Bank::process.
ledger == <<referenced, latest, net>>

\* The state of a run of main.
run == <<accounts, amounts, pc, i, handled, warnings, rec, result, before,
         prior, scenario, deposited, withdrawn, ledger, emitted>>

vars == <<run, calc>>

---------------------------------------------------------------------------
(* Bounds and input domains *)

\* The longest input file (number of records) the model replays.
MaxRecords == 4

Clients == {1, 2}
TxIds == {1, 2}

\* An f64 amount of the input, as the decimal mant * 10^exp it was written
\* as.  Every amount below is either small enough that n * 10_000.0 is an
\* exact f64 integer, or so large that the cast to i64 saturates.
F64(mant, exp) == [class |-> "finite", mant |-> mant, exp |-> exp]

\* The f64 values that are no number: NaN, and the infinity of either sign.
NaN == [class |-> "nan", mant |-> 0, exp |-> 0]
Infinity(sign) == [class |-> "infinite", mant |-> sign, exp |-> 0]

\* 5.0 and an amount beyond the i64 range in either direction.
AmountInputs == { F64(5, 0), F64(1, 15), F64(-1, 15) }

\* The ids the withdrawals carry: Bank::process does not look at the id of
\* a Withdrawal, so one id, which deposits carry as well, stands for all.
WithdrawalIds == {1}

\* Option<T>: None is the empty sequence, Some(x) is <<x>>.
None == << >>
Some(x) == <<x>>

TxRecord(kind, client, tx, amount) ==
    [kind |-> kind, client |-> client, tx |-> tx, amount |-> amount]

\* The records the reader may yield.  Deposits and withdrawals come with
\* every amount, and one of each with none; the other kinds come without an
\* amount, and one of them with it; one record has a type that is none of
\* the five.
Records ==
    { TxRecord("deposit", c, t, Some(x)) :
        c \in Clients, t \in TxIds, x \in AmountInputs }
    \cup
    { TxRecord("withdrawal", c, t, Some(x)) :
        c \in Clients, t \in WithdrawalIds, x \in AmountInputs }
    \cup
    { TxRecord(k, c, t, None) :
        k \in {"dispute", "resolve", "chargeback"}, c \in Clients, t \in TxIds }
    \cup
    { TxRecord("deposit", 1, 1, None),
      TxRecord("withdrawal", 1, 1, None),
      TxRecord("dispute", 1, 1, Some(F64(5, 0))),
      TxRecord("transfer", 1, 1, None) }

\* The test scenario of the specification, as the reader yields it.
EndToEnd ==
    << TxRecord("deposit", 1, 1, Some(F64(5, 0))),
       TxRecord("deposit", 2, 2, Some(F64(3, 0))),
       TxRecord("withdrawal", 1, 3, Some(F64(15, -1))),
       TxRecord("dispute", 1, 1, None) >>

\* The records of the scenario, with a few more that reach the other ends
\* of a run: a missing amount, an unknown type, a total that overflows.
EndToEndRecords ==
    { EndToEnd[k] : k \in 1..Len(EndToEnd) }
    \cup
    { TxRecord("deposit", 1, 2, Some(F64(1, 15))),
      TxRecord("dispute", 1, 2, None),
      TxRecord("resolve", 2, 2, None),
      TxRecord("chargeback", 2, 2, None),
      TxRecord("withdrawal", 2, 3, None),
      TxRecord("transfer", 1, 1, None) }

---------------------------------------------------------------------------
(* Money: struct Money(i64) *)

Base == 10^8

\* The limbs of the integer h * Base^2 + m * Base + l, for limbs of any sign.
Norm(h, m, l) ==
    LET m1 == m + (l \div Base)
    IN  << h + (m1 \div Base), m1 % Base, l % Base >>

\* Money(n) for an n that fits TLC's integers.
Money(n) == Norm(0, 0, n)

I64_MAX == << 922, 33720368, 54775807 >>
I64_MIN == Norm(-922, -33720368, -54775808)

\* a < b and a <= b on limbs.
Lt(a, b) ==
    \/ a[1] < b[1]
    \/ a[1] = b[1] /\ a[2] < b[2]
    \/ a[1] = b[1] /\ a[2] = b[2] /\ a[3] < b[3]

Le(a, b) == a = b \/ Lt(a, b)

InI64(v) == Le(I64_MIN, v) /\ Le(v, I64_MAX)

\* Result<T, E>.
Ok(v) == [tag |-> "Ok", val |-> v]
Err(e) == [tag |-> "Err", err |-> e]
IsOk(r) == r.tag = "Ok"

\* A faulty add: i64::wrapping_add, the sum modulo 2^64.
MoneyAdd_wrapping(a, b) ==
    LET s == Norm(a[1] + b[1], a[2] + b[2], a[3] + b[3])
        TwoTo64 == << 1844, 67440737, 9551616 >>
    IN  IF Lt(I64_MAX, s)
        THEN Ok(Norm(s[1] - TwoTo64[1], s[2] - TwoTo64[2], s[3] - TwoTo64[3]))
        ELSE IF Lt(s, I64_MIN)
        THEN Ok(Norm(s[1] + TwoTo64[1], s[2] + TwoTo64[2], s[3] + TwoTo64[3]))
        ELSE Ok(s)

\* i64::checked_add / checked_sub: the exact sum or difference when it is an
\* i64, None otherwise; ok_or turns None into TxError::Overflow.
MoneyAdd(a, b) ==
    LET s == Norm(a[1] + b[1], a[2] + b[2], a[3] + b[3])
    IN  IF InI64(s) THEN Ok(s) ELSE Err("Overflow")

MoneySub(a, b) ==
    LET d == Norm(a[1] - b[1], a[2] - b[2], a[3] - b[3])
    IN  IF InI64(d) THEN Ok(d) ELSE Err("Overflow")

\* `as i64` on a float saturates at the ends of the range.
Saturate(v) ==
    IF Lt(I64_MAX, v) THEN I64_MAX
    ELSE IF Lt(v, I64_MIN) THEN I64_MIN
    ELSE v

\* mant * 10^k as limbs, for |mant| < 100 and 0 <= k < 24: the power of
\* ten falls into one limb.
TimesTenPow(mant, k) ==
    IF k < 8 THEN Norm(0, 0, mant * 10^k)
    ELSE IF k < 16 THEN Norm(0, mant * 10^(k - 8), 0)
    ELSE Norm(mant * 10^(k - 16), 0, 0)

\* f64::round: to the nearest integer, halves away from zero (n / d, d > 0).
RoundDiv(n, d) ==
    IF n >= 0 THEN (2 * n + d) \div (2 * d)
    ELSE -((2 * (-n) + d) \div (2 * d))

\* n * 10_000.0 is the f64 nearest to the product of 10000 and the f64
\* nearest to n, and it is that f64 that is rounded.  For |mant| < 100 it
\* is on the same side of every half as the decimal product, or is the
\* half when the decimal product is, but for 0.00015 and -0.00015, whose
\* f64 product is 1.4999999999999998 in magnitude and not 1.5.
ProductBelowHalf(n) == n.mant \in {15, -15} /\ n.exp = -5

\* impl From<f64> for Money: (n * 10_000.0).round() as i64, for |mant| < 100
\* and exp < 20.  The cast of NaN is 0, that of an infinity saturates; an
\* amount below 0.00001 in magnitude rounds to 0.
MoneyFromF64(n) ==
    IF n.class = "nan" THEN Money(0)
    ELSE IF n.class = "infinite" THEN (IF n.mant > 0 THEN I64_MAX ELSE I64_MIN)
    ELSE IF n.exp + 4 >= 0 THEN Saturate(TimesTenPow(n.mant, n.exp + 4))
    ELSE IF n.exp + 4 < -2 THEN Money(0)
    ELSE IF ProductBelowHalf(n) THEN Money(IF n.mant > 0 THEN 1 ELSE -1)
    ELSE Money(RoundDiv(n.mant, 10^(-(n.exp + 4))))

\* Text is a sequence of characters.  The character of the digit d.
Digit(d) == << "0", "1", "2", "3", "4", "5", "6", "7", "8", "9" >>[d + 1]

\* {:0n}: x, 0 <= x < 10^n, in n digits, zero-padded.
Padded(x, n) == [k \in 1..n |-> Digit((x \div 10^(n - k)) % 10)]

\* {} on one limb: x, 0 <= x < Base, in as many digits as it has.
Shortest(x) ==
    Padded(x, CHOOSE n \in 1..8 : (n = 1 \/ x >= 10^(n - 1)) /\ x < 10^n)

\* {} on a u64: the decimal digits, with no leading zero.
Decimal(u) ==
    IF u[1] > 0 THEN Shortest(u[1]) \o Padded(u[2], 8) \o Padded(u[3], 8)
    ELSE IF u[2] > 0 THEN Shortest(u[2]) \o Padded(u[3], 8)
    ELSE Shortest(u[3])

\* i64::unsigned_abs: the magnitude as a u64, 2^63 for i64::MIN.
unsigned_abs(v) == IF Lt(v, Money(0)) THEN Norm(-v[1], -v[2], -v[3]) ELSE v

\* mag / 10_000 and mag % 10_000 on a u64.
DivTenThousand(mag) ==
    << mag[1] \div 10^4,
       (mag[1] % 10^4) * 10^4 + mag[2] \div 10^4,
       (mag[2] % 10^4) * 10^4 + mag[3] \div 10^4 >>

RemTenThousand(mag) == mag[3] % 10^4

\* A faulty Display: the fraction is written with {} and not {:04}.
MoneyFmt_unpadded(v) ==
    LET sign == IF Le(Money(0), v) THEN << >> ELSE << "-" >>
        mag == unsigned_abs(v)
        int_part == DivTenThousand(mag)
        frac_part == RemTenThousand(mag)
    IN  sign \o Decimal(int_part) \o << "." >> \o Shortest(frac_part)

\* impl Display for Money: write!(f, "{}{}.{:04}", sign, int_part, frac_part)
MoneyFmt(v) ==
    LET sign == IF Le(Money(0), v) THEN << >> ELSE << "-" >>
        mag == unsigned_abs(v)
        int_part == DivTenThousand(mag)
        frac_part == RemTenThousand(mag)
    IN  sign \o Decimal(int_part) \o << "." >> \o Padded(frac_part, 4)

---------------------------------------------------------------------------
(* enum Tx and impl TryFrom<TxRecord> for Tx *)

Deposit(client, id, amount) ==
    [variant |-> "Deposit", client |-> client, id |-> id, amount |-> amount]
Withdrawal(client, id, amount) ==
    [variant |-> "Withdrawal", client |-> client, id |-> id, amount |-> amount]
Dispute(client, id) == [variant |-> "Dispute", client |-> client, id |-> id]
Resolve(client, id) == [variant |-> "Resolve", client |-> client, id |-> id]
Chargeback(client, id) == [variant |-> "Chargeback", client |-> client, id |-> id]

\* What only a panic ends: the todo!() of an unknown record type.
Panic == [tag |-> "Panic"]

\* try_from: the amount is converted first, whatever the type; `amount?`
\* returns MissingAmount from the deposit and withdrawal arms only.
TxTryFrom(record) ==
    LET amount == IF record.amount = None
                  THEN Err("MissingAmount")
                  ELSE Ok(MoneyFromF64(record.amount[1]))
    IN  CASE record.kind = "deposit" ->
               IF IsOk(amount)
               THEN Ok(Deposit(record.client, record.tx, amount.val))
               ELSE amount
          [] record.kind = "withdrawal" ->
               IF IsOk(amount)
               THEN Ok(Withdrawal(record.client, record.tx, amount.val))
               ELSE amount
          [] record.kind = "dispute" -> Ok(Dispute(record.client, record.tx))
          [] record.kind = "resolve" -> Ok(Resolve(record.client, record.tx))
          [] record.kind = "chargeback" -> Ok(Chargeback(record.client, record.tx))
          [] OTHER -> Panic

---------------------------------------------------------------------------
(* struct Account.  Each operation gives the account after the call and   *)
(* the call's result: "Ok" or the name of the TxError.                    *)

AccountNew(client_id) ==
    [client_id |-> client_id, available |-> Money(0), held |-> Money(0),
     locked |-> FALSE]

Outcome(account, res) == [account |-> account, res |-> res]

check_unlocked(account) ==
    IF account.locked THEN Err("LockedAccount") ELSE Ok(TRUE)

\* A faulty deposit: the amount replaces available.
deposit_replaces(account, amount) ==
    IF ~IsOk(check_unlocked(account)) THEN Outcome(account, "LockedAccount")
    ELSE LET sum == MoneyAdd(account.available, amount)
         IN  IF ~IsOk(sum) THEN Outcome(account, sum.err)
             ELSE Outcome([account EXCEPT !.available = amount], "Ok")

deposit(account, amount) ==
    IF ~IsOk(check_unlocked(account)) THEN Outcome(account, "LockedAccount")
    ELSE LET sum == MoneyAdd(account.available, amount)
         IN  IF ~IsOk(sum) THEN Outcome(account, sum.err)
             ELSE Outcome([account EXCEPT !.available = sum.val], "Ok")

\* A faulty withdraw: available is written before it is checked.
withdraw_commit_first(account, amount) ==
    IF ~IsOk(check_unlocked(account)) THEN Outcome(account, "LockedAccount")
    ELSE LET available == MoneySub(account.available, amount)
         IN  IF ~IsOk(available) THEN Outcome(account, available.err)
             ELSE IF Le(Money(0), available.val)
                  THEN Outcome([account EXCEPT !.available = available.val], "Ok")
                  ELSE Outcome([account EXCEPT !.available = available.val],
                               "InsufficientFunds")

\* A faulty withdraw: the new available is committed without the test
\* that it is not negative.
withdraw_unchecked(account, amount) ==
    IF ~IsOk(check_unlocked(account)) THEN Outcome(account, "LockedAccount")
    ELSE LET available == MoneySub(account.available, amount)
         IN  IF ~IsOk(available) THEN Outcome(account, available.err)
             ELSE Outcome([account EXCEPT !.available = available.val], "Ok")

withdraw(account, amount) ==
    IF ~IsOk(check_unlocked(account)) THEN Outcome(account, "LockedAccount")
    ELSE LET available == MoneySub(account.available, amount)
         IN  IF ~IsOk(available) THEN Outcome(account, available.err)
             ELSE IF Le(Money(0), available.val)
                  THEN Outcome([account EXCEPT !.available = available.val], "Ok")
                  ELSE Outcome(account, "InsufficientFunds")

\* A faulty dispute: available is written before held is computed, so an
\* overflow of held leaves the new available behind.
dispute_partial_write(account, amount) ==
    LET available == MoneySub(account.available, amount)
        held == MoneyAdd(account.held, amount)
    IN  IF ~IsOk(available) THEN Outcome(account, available.err)
        ELSE IF ~IsOk(held)
             THEN Outcome([account EXCEPT !.available = available.val], held.err)
        ELSE Outcome([account EXCEPT !.available = available.val,
                                     !.held = held.val], "Ok")

\* A faulty dispute: the amount is put into held and not taken out of
\* available.
dispute_held_only(account, amount) ==
    LET available == MoneySub(account.available, amount)
        held == MoneyAdd(account.held, amount)
    IN  IF ~IsOk(available) THEN Outcome(account, available.err)
        ELSE IF ~IsOk(held) THEN Outcome(account, held.err)
        ELSE Outcome([account EXCEPT !.held = held.val], "Ok")

dispute(account, amount) ==
    LET available == MoneySub(account.available, amount)
        held == MoneyAdd(account.held, amount)
    IN  IF ~IsOk(available) THEN Outcome(account, available.err)
        ELSE IF ~IsOk(held) THEN Outcome(account, held.err)
        ELSE Outcome([account EXCEPT !.available = available.val,
                                     !.held = held.val], "Ok")

\* A faulty resolve: held is released, available is not given back.
resolve_held_only(account, amount) ==
    LET available == MoneyAdd(account.available, amount)
        held == MoneySub(account.held, amount)
    IN  IF ~IsOk(available) THEN Outcome(account, available.err)
        ELSE IF ~IsOk(held) THEN Outcome(account, held.err)
        ELSE Outcome([account EXCEPT !.held = held.val], "Ok")

resolve(account, amount) ==
    LET available == MoneyAdd(account.available, amount)
        held == MoneySub(account.held, amount)
    IN  IF ~IsOk(available) THEN Outcome(account, available.err)
        ELSE IF ~IsOk(held) THEN Outcome(account, held.err)
        ELSE Outcome([account EXCEPT !.available = available.val,
                                     !.held = held.val], "Ok")

\* A faulty chargeback: the account is not locked.
chargeback_unlocked(account, amount) ==
    LET held == MoneySub(account.held, amount)
    IN  IF ~IsOk(held) THEN Outcome(account, held.err)
        ELSE Outcome([account EXCEPT !.held = held.val], "Ok")

\* A faulty chargeback: the account is locked before held is computed, and
\* stays locked when that overflows.
chargeback_locks_first(account, amount) ==
    LET held == MoneySub(account.held, amount)
    IN  IF ~IsOk(held) THEN Outcome([account EXCEPT !.locked = TRUE], held.err)
        ELSE Outcome([account EXCEPT !.held = held.val, !.locked = TRUE], "Ok")

chargeback(account, amount) ==
    LET held == MoneySub(account.held, amount)
    IN  IF ~IsOk(held) THEN Outcome(account, held.err)
        ELSE Outcome([account EXCEPT !.held = held.val, !.locked = TRUE], "Ok")

\* Account::total_balance: the sum, or the panic of expect().
total_balance(account) == MoneyAdd(account.available, account.held)

\* A faulty projection: total leaves held out.
AccountRecordFrom_total_available(account) ==
    [client |-> account.client_id,
     available |-> account.available,
     held |-> account.held,
     total |-> account.available,
     locked |-> account.locked]

\* impl From<&Account> for AccountRecord, where total_balance does not panic.
AccountRecordFrom(account) ==
    [client |-> account.client_id,
     available |-> account.available,
     held |-> account.held,
     total |-> total_balance(account).val,
     locked |-> account.locked]

---------------------------------------------------------------------------
(* struct Bank *)

\* HashMap::insert on a function.
Insert(map, key, value) ==
    [k \in DOMAIN map \cup {key} |-> IF k = key THEN value ELSE map[k]]

EmptyMap == [k \in {} |-> 0]

BankDefault == [accounts |-> EmptyMap, amounts |-> EmptyMap]

\* Bank::account: the entry of `client`, inserted as Account::new when absent.
\* The bank with the entry in place; the account is then bank.accounts[client].
BankAccount(bank, client) ==
    IF client \in DOMAIN bank.accounts THEN bank
    ELSE [bank EXCEPT !.accounts = Insert(@, client, AccountNew(client))]

\* A faulty Bank::amount: an id with no entry gives Money::default().
BankAmount_or_default(bank, id) ==
    IF id \in DOMAIN bank.amounts THEN Ok(bank.amounts[id])
    ELSE Ok(Money(0))

\* Bank::amount
BankAmount(bank, id) ==
    IF id \in DOMAIN bank.amounts THEN Ok(bank.amounts[id])
    ELSE Err("NoSuchTransaction")

\* The account operation `op(account, amount)` applied to the entry of
\* `client`: self.account(client).op(amount).
OnAccount(bank, client, out) ==
    [bank |-> [bank EXCEPT !.accounts[client] = out.account], res |-> out.res]

\* A faulty Deposit arm: the amount is recorded before the deposit is
\* made, and stays when the deposit fails.
process_deposit_recorded_first(bank, tx) ==
    LET b == BankAccount(bank, tx.client)
        recorded == [b EXCEPT !.amounts = Insert(@, tx.id, tx.amount)]
    IN  OnAccount(recorded, tx.client, deposit(b.accounts[tx.client], tx.amount))

\* Bank::process, one operator for each arm of the match: the bank after
\* the call and the call's result.
process_deposit(bank, tx) ==
    LET b == BankAccount(bank, tx.client)
        done == OnAccount(b, tx.client, deposit(b.accounts[tx.client], tx.amount))
    IN  IF done.res # "Ok" THEN done
        ELSE [bank |-> [done.bank EXCEPT !.amounts = Insert(@, tx.id, tx.amount)],
              res |-> "Ok"]

\* A faulty Withdrawal arm: the amount is recorded as a deposit's is.
process_withdrawal_recorded(bank, tx) ==
    LET b == BankAccount(bank, tx.client)
        done == OnAccount(b, tx.client, withdraw(b.accounts[tx.client], tx.amount))
    IN  IF done.res # "Ok" THEN done
        ELSE [bank |-> [done.bank EXCEPT !.amounts = Insert(@, tx.id, tx.amount)],
              res |-> "Ok"]

process_withdrawal(bank, tx) ==
    LET b == BankAccount(bank, tx.client)
    IN  OnAccount(b, tx.client, withdraw(b.accounts[tx.client], tx.amount))

\* A faulty Dispute arm: the amount is taken out of available and never
\* put into held.
process_dispute_not_held(bank, tx) ==
    LET amount == BankAmount(bank, tx.id)
        b == BankAccount(bank, tx.client)
        moved == dispute(b.accounts[tx.client], amount.val)
    IN  IF ~IsOk(amount) THEN [bank |-> bank, res |-> amount.err]
        ELSE OnAccount(b, tx.client,
                 Outcome([moved.account EXCEPT !.held = b.accounts[tx.client].held],
                         moved.res))

process_dispute(bank, tx) ==
    LET amount == BankAmount(bank, tx.id)
        b == BankAccount(bank, tx.client)
    IN  IF ~IsOk(amount) THEN [bank |-> bank, res |-> amount.err]
        ELSE OnAccount(b, tx.client, dispute(b.accounts[tx.client], amount.val))

\* A faulty Resolve arm: the account is looked up, and so created, before
\* the amount is.
process_resolve_account_first(bank, tx) ==
    LET amount == BankAmount(bank, tx.id)
        b == BankAccount(bank, tx.client)
    IN  IF ~IsOk(amount) THEN [bank |-> b, res |-> amount.err]
        ELSE OnAccount(b, tx.client, resolve(b.accounts[tx.client], amount.val))

process_resolve(bank, tx) ==
    LET amount == BankAmount(bank, tx.id)
        b == BankAccount(bank, tx.client)
    IN  IF ~IsOk(amount) THEN [bank |-> bank, res |-> amount.err]
        ELSE OnAccount(b, tx.client, resolve(b.accounts[tx.client], amount.val))

\* A faulty Chargeback arm: the account is looked up under the id of the
\* transaction and not under its client.
process_chargeback_by_id(bank, tx) ==
    LET amount == BankAmount(bank, tx.id)
        b == BankAccount(bank, tx.id)
    IN  IF ~IsOk(amount) THEN [bank |-> bank, res |-> amount.err]
        ELSE OnAccount(b, tx.id, chargeback(b.accounts[tx.id], amount.val))

process_chargeback(bank, tx) ==
    LET amount == BankAmount(bank, tx.id)
        b == BankAccount(bank, tx.client)
    IN  IF ~IsOk(amount) THEN [bank |-> bank, res |-> amount.err]
        ELSE OnAccount(b, tx.client, chargeback(b.accounts[tx.client], amount.val))

process(bank, tx) ==
    CASE tx.variant = "Deposit" -> process_deposit(bank, tx)
      [] tx.variant = "Withdrawal" -> process_withdrawal(bank, tx)
      [] tx.variant = "Dispute" -> process_dispute(bank, tx)
      [] tx.variant = "Resolve" -> process_resolve(bank, tx)
      [] tx.variant = "Chargeback" -> process_chargeback(bank, tx)

---------------------------------------------------------------------------
(* fn main *)

TxErrors == {"InsufficientFunds", "LockedAccount", "NoSuchTransaction", "Overflow"}

NoRecord == TxRecord("", 0, 0, None)

\* The bank main holds.
Bank == [accounts |-> accounts, amounts |-> amounts]

\* The account of `client` in `bank`, which Bank::account would create as
\* Account::new when there is none yet.
AccountIn(bank, client) ==
    IF client \in DOMAIN bank.accounts THEN bank.accounts[client]
    ELSE AccountNew(client)

\* What the history variables become when a loop iteration takes `record`.
Observe(record) ==
    /\ i' = i + 1
    /\ rec' = record
    /\ before' = Bank
    /\ prior' = IF result = "Ok" /\ rec.kind = "dispute"
                THEN Some([client |-> rec.client, id |-> rec.tx,
                           account |-> AccountIn(before, rec.client)])
                ELSE None
    /\ scenario' = IF scenario = i /\ i < Len(EndToEnd) /\ record = EndToEnd[i + 1]
                   THEN i + 1
                   ELSE -1

\* No computation on its own: main runs.
NoCalc == [op |-> "none"]

Init ==
    /\ calc = NoCalc
    /\ accounts = BankDefault.accounts
    /\ amounts = BankDefault.amounts
    /\ pc = "start"
    /\ i = 0
    /\ handled = 0
    /\ warnings = 0
    /\ rec = NoRecord
    /\ result = "None"
    /\ before = BankDefault
    /\ prior = None
    /\ scenario = 0
    /\ deposited = {}
    /\ withdrawn = {}
    /\ referenced = {}
    /\ latest = EmptyMap
    /\ net = EmptyMap
    /\ emitted = {}

\* What is remembered of bank.process(tx) on `record` ending as `res`.
Tally(record, res) ==
    /\ referenced' = referenced \cup {record.client}
    /\ latest' = IF record.kind = "deposit" /\ res = "Ok"
                 THEN Insert(latest, record.tx,
                             [client |-> record.client,
                              amount |-> TxTryFrom(record).val.amount])
                 ELSE latest
    /\ net' = LET sofar == IF record.client \in DOMAIN net THEN net[record.client]
                           ELSE Money(0)
                  tx == TxTryFrom(record).val
                  moved == IF record.kind = "chargeback" THEN amounts[record.tx]
                           ELSE tx.amount
              IN  IF res = "Ok" /\ record.kind = "deposit"
                  THEN Insert(net, record.client,
                              Norm(sofar[1] + moved[1], sofar[2] + moved[2],
                                   sofar[3] + moved[3]))
                  ELSE IF res = "Ok" /\ record.kind \in {"withdrawal", "chargeback"}
                  THEN Insert(net, record.client,
                              Norm(sofar[1] - moved[1], sofar[2] - moved[2],
                                   sofar[3] - moved[3]))
                  ELSE net

\* The lengths env::args_os() may have: the program name and zero, one or
\* two arguments.
ArgLens == {1, 2, 3}

\* if args.len() != 2 { Err(BankError::Usage)?; }: main returns the error
\* before a bank or a reader exists.
UsageError(len) ==
    /\ pc = "start"
    /\ len # 2
    /\ pc' = "aborted"
    /\ result' = "Usage"
    /\ UNCHANGED <<accounts, amounts, i, handled, warnings, rec, before, prior,
                   scenario, deposited, withdrawn, ledger, emitted, calc>>

\* from_path(&args[1])?: the file cannot be opened, main returns the error.
OpenFails ==
    /\ pc = "start"
    /\ pc' = "aborted"
    /\ result' = "OpenError"
    /\ UNCHANGED <<accounts, amounts, i, handled, warnings, rec, before, prior,
                   scenario, deposited, withdrawn, ledger, emitted, calc>>

\* One argument, and a file that opens: Bank::default() and the reader.
Open ==
    /\ pc = "start"
    /\ pc' = "loop"
    /\ accounts' = BankDefault.accounts
    /\ amounts' = BankDefault.amounts
    /\ UNCHANGED <<i, handled, warnings, rec, result, before, prior, scenario,
                   deposited, withdrawn, ledger, emitted, calc>>

\* for (i, result) in reader.deserialize().enumerate(): `result?` on a line
\* the reader cannot deserialize returns the error from main.
ReadFails ==
    /\ pc = "loop"
    /\ i < MaxRecords
    /\ Observe(NoRecord)
    /\ result' = "ReadError"
    /\ pc' = "aborted"
    /\ UNCHANGED <<accounts, amounts, handled, warnings, deposited, withdrawn,
                   ledger, emitted, calc>>

\* One iteration on a record whose conversion returns MissingAmount:
\* `Tx::try_from(record)?` returns it from main.
ConversionFails(record) ==
    /\ pc = "loop"
    /\ i < MaxRecords
    /\ TxTryFrom(record).tag = "Err"
    /\ Observe(record)
    /\ result' = TxTryFrom(record).err
    /\ pc' = "aborted"
    /\ UNCHANGED <<accounts, amounts, handled, warnings, deposited, withdrawn,
                   ledger, emitted, calc>>

\* One iteration on a record of an unknown type: todo!() panics.
ConversionPanics(record) ==
    /\ pc = "loop"
    /\ i < MaxRecords
    /\ TxTryFrom(record).tag = "Panic"
    /\ Observe(record)
    /\ result' = "UnknownKind"
    /\ pc' = "todo_panic"
    /\ UNCHANGED <<accounts, amounts, handled, warnings, deposited, withdrawn,
                   ledger, emitted, calc>>

\* One iteration on a record that converts: bank.process(tx), a warning
\* when it fails, and on to the next record.
Process(record) ==
    /\ pc = "loop"
    /\ i < MaxRecords
    /\ TxTryFrom(record).tag = "Ok"
    /\ LET done == process(Bank, TxTryFrom(record).val)
       IN  /\ accounts' = done.bank.accounts
           /\ amounts' = done.bank.amounts
           /\ result' = done.res
           /\ warnings' = IF done.res = "Ok" THEN warnings ELSE warnings + 1
           /\ Tally(record, done.res)
           /\ deposited' = IF record.kind = "deposit" /\ done.res = "Ok"
                            THEN deposited \cup {record.tx}
                            ELSE deposited
    /\ withdrawn' = IF record.kind = "withdrawal"
                    THEN withdrawn \cup {record.tx}
                    ELSE withdrawn
    /\ handled' = handled + 1
    /\ Observe(record)
    /\ UNCHANGED <<pc, emitted, calc>>

\* One iteration on a record that converts and that bank.process fails on,
\* with a stderr that cannot be written: eprintln! panics on the warning.
WarningPanics(record) ==
    /\ pc = "loop"
    /\ i < MaxRecords
    /\ TxTryFrom(record).tag = "Ok"
    /\ LET done == process(Bank, TxTryFrom(record).val)
       IN  /\ done.res # "Ok"
           /\ accounts' = done.bank.accounts
           /\ amounts' = done.bank.amounts
           /\ result' = done.res
           /\ Tally(record, done.res)
    /\ pc' = "stderr_panic"
    /\ withdrawn' = IF record.kind = "withdrawal"
                    THEN withdrawn \cup {record.tx}
                    ELSE withdrawn
    /\ handled' = handled + 1
    /\ Observe(record)
    /\ UNCHANGED <<warnings, deposited, emitted, calc>>

\* The reader is exhausted: the loop ends, and with it the scope of the
\* record, of its result and of what is remembered of the iterations.
EndOfInput ==
    /\ pc = "loop"
    /\ pc' = "output"
    /\ rec' = NoRecord
    /\ result' = "None"
    /\ before' = Bank
    /\ prior' = None
    /\ UNCHANGED <<accounts, amounts, i, handled, warnings, scenario, deposited,
                   withdrawn, ledger, emitted, calc>>

Written == { r.client : r \in emitted }

\* for account in bank.accounts(): one account, in whatever order the
\* HashMap gives, is projected and written.
WriteAccount(client) ==
    /\ pc = "output"
    /\ client \in DOMAIN accounts \ Written
    /\ IsOk(total_balance(accounts[client]))
    /\ emitted' = emitted \cup {AccountRecordFrom(accounts[client])}
    /\ UNCHANGED <<accounts, amounts, pc, i, handled, warnings, rec, result,
                   before, prior, scenario, deposited, withdrawn, ledger,
                   calc>>

\* The projection of an account whose total overflows: expect() panics.
WritePanics(client) ==
    /\ pc = "output"
    /\ client \in DOMAIN accounts \ Written
    /\ ~IsOk(total_balance(accounts[client]))
    /\ pc' = "total_panic"
    /\ UNCHANGED <<accounts, amounts, i, handled, warnings, rec, result, before,
                   prior, scenario, deposited, withdrawn, ledger, emitted, calc>>

\* writer.serialize(..)?: the record cannot be written, main returns the
\* error.
WriteFails(client) ==
    /\ pc = "output"
    /\ client \in DOMAIN accounts \ Written
    /\ IsOk(total_balance(accounts[client]))
    /\ pc' = "aborted"
    /\ result' = "WriteError"
    /\ UNCHANGED <<accounts, amounts, i, handled, warnings, rec, before, prior,
                   scenario, deposited, withdrawn, ledger, emitted, calc>>

\* Every account is written: main returns Ok(()).
Finish ==
    /\ pc = "output"
    /\ DOMAIN accounts = Written
    /\ pc' = "done"
    /\ UNCHANGED <<accounts, amounts, i, handled, warnings, rec, result, before,
                   prior, scenario, deposited, withdrawn, ledger, emitted, calc>>

\* One step of main, the reader yielding records of `pool`.
Run(pool) ==
    \/ \E len \in ArgLens : UsageError(len)
    \/ OpenFails
    \/ Open
    \/ ReadFails
    \/ \E record \in pool : ConversionFails(record)
    \/ \E record \in pool : ConversionPanics(record)
    \/ \E record \in pool : Process(record)
    \/ \E record \in pool : WarningPanics(record)
    \/ EndOfInput
    \/ \E client \in Clients : WriteAccount(client)
    \/ \E client \in Clients : WritePanics(client)
    \/ \E client \in Clients : WriteFails(client)
    \/ Finish

Next == Run(Records)

Spec == Init /\ [][Next]_vars

\* The runs over the records of the end-to-end scenario.
NextEndToEnd == Run(EndToEndRecords)

SpecEndToEnd == Init /\ [][NextEndToEnd]_vars

---------------------------------------------------------------------------
(* Money on its own: the operations of the type applied to chosen values. *)

\* Money values that fit TLC's integers.
SmallInputs == { -12345, -10000, -1, 0, 1, 9999, 10000, 12345, 99999999, 100000000 }

\* The values the operations are applied to: the small ones, the ends of
\* the i64 range and their neighbours, and values around 10^16.
MoneyInputs ==
    { Money(n) : n \in SmallInputs }
    \cup
    { I64_MIN, Norm(-922, -33720368, -54775807),
      << 922, 33720368, 54775806 >>, I64_MAX,
      Norm(-1, 0, 0), << 0, 99999999, 99999999 >>, << 1, 0, 0 >> }

\* Two Money values are chosen.
InitMoney ==
    /\ accounts = BankDefault.accounts
    /\ amounts = BankDefault.amounts
    /\ pc = "start"
    /\ i = 0
    /\ handled = 0
    /\ warnings = 0
    /\ rec = NoRecord
    /\ result = "None"
    /\ before = BankDefault
    /\ prior = None
    /\ scenario = 0
    /\ deposited = {}
    /\ withdrawn = {}
    /\ referenced = {}
    /\ latest = EmptyMap
    /\ net = EmptyMap
    /\ emitted = {}
    /\ \E a \in MoneyInputs, b \in MoneyInputs : calc = [op |-> "args", a |-> a, b |-> b]

\* a + b
Add ==
    /\ calc.op = "args"
    /\ calc' = [op |-> "add", a |-> calc.a, b |-> calc.b,
                out |-> MoneyAdd(calc.a, calc.b)]
    /\ UNCHANGED run

\* a - b
Sub ==
    /\ calc.op = "args"
    /\ calc' = [op |-> "sub", a |-> calc.a, b |-> calc.b,
                out |-> MoneySub(calc.a, calc.b)]
    /\ UNCHANGED run

\* (a + b)? - b
SubBack ==
    /\ calc.op = "add"
    /\ IsOk(calc.out)
    /\ calc' = [op |-> "add_sub", a |-> calc.a, b |-> calc.b,
                out |-> MoneySub(calc.out.val, calc.b)]
    /\ UNCHANGED run

\* a.to_string()
ToText ==
    /\ calc.op = "args"
    /\ calc' = [op |-> "to_text", a |-> calc.a, b |-> calc.b,
                out |-> MoneyFmt(calc.a)]
    /\ UNCHANGED run

NextMoney == Add \/ Sub \/ SubBack \/ ToText

SpecMoney == InitMoney /\ [][NextMoney]_vars

---------------------------------------------------------------------------
(* What the properties below speak of: the latest call of Bank::process. *)

\* The latest iteration handed its record to Bank::process.
Processed == result \in {"Ok"} \cup TxErrors

\* The latest call of Bank::process returned an error.
Failed == result \in TxErrors

\* The account of the record's client before and after the latest call.
Was == AccountIn(before, rec.client)
Now == AccountIn(Bank, rec.client)

\* The amount the history held for the record's id when the call began.
Recorded == before.amounts[rec.tx]

\* The amount of the record, for a deposit or a withdrawal that converts.
Amount == MoneyFromF64(rec.amount[1])

\* The latest call was a Dispute, Resolve or Chargeback.
Refers == rec.kind \in {"dispute", "resolve", "chargeback"}

---------------------------------------------------------------------------
(* Properties *)

\* C1: when process(tx) returns an error, every account has the available,
\* held and locked it had before the call (an account the call created is
\* as Account::new makes it) and the amount history is what it was; also
\* when it is the second arithmetic step of a dispute or resolve that
\* overflows.
C1_FailureLeavesStateUnchanged ==
    Failed =>
        /\ amounts = before.amounts
        /\ DOMAIN before.accounts \subseteq DOMAIN accounts
        /\ \A c \in DOMAIN accounts : accounts[c] = AccountIn(before, c)

\* A dispute whose first step (available - amount) succeeded and whose
\* second step (held + amount) overflowed.
C1_Witness ==
    /\ rec.kind = "dispute"
    /\ result = "Overflow"
    /\ IsOk(MoneySub(Was.available, Recorded))
    /\ ~IsOk(MoneyAdd(Was.held, Recorded))

\* C2: a Dispute of an id the history holds with amount X, where neither
\* available - X nor held + X overflows, succeeds with available decreased
\* by X, held increased by X, available + held as before and locked as
\* before.
C2_DisputeMovesAmountToHeld ==
    ( /\ Processed
      /\ rec.kind = "dispute"
      /\ rec.tx \in DOMAIN before.amounts
      /\ IsOk(MoneySub(Was.available, Recorded))
      /\ IsOk(MoneyAdd(Was.held, Recorded)) )
    =>
        /\ result = "Ok"
        /\ Ok(Now.available) = MoneySub(Was.available, Recorded)
        /\ Ok(Now.held) = MoneyAdd(Was.held, Recorded)
        /\ MoneyAdd(Now.available, Now.held) = MoneyAdd(Was.available, Was.held)
        /\ Now.locked = Was.locked

\* A successful dispute of an id that a deposit recorded, on an account
\* that held funds.
C2_Witness ==
    /\ rec.kind = "dispute"
    /\ result = "Ok"
    /\ rec.tx \in deposited
    /\ Recorded = Money(50000)
    /\ Was.available = Money(50000)
    /\ Now.held = Money(50000)

\* C3: a Resolve{client, id} that follows at once a successful
\* Dispute{client, id} succeeds and leaves the account as it was before
\* the dispute.
C3_ResolveReversesDispute ==
    ( /\ Processed
      /\ rec.kind = "resolve"
      /\ prior # None
      /\ prior[1].client = rec.client
      /\ prior[1].id = rec.tx )
    =>
        /\ result = "Ok"
        /\ accounts[rec.client] = prior[1].account

\* A resolve right after the dispute of the same id on the same client,
\* the dispute having moved funds.
C3_Witness ==
    /\ rec.kind = "resolve"
    /\ result = "Ok"
    /\ prior # None
    /\ prior[1].client = rec.client
    /\ prior[1].id = rec.tx
    /\ Was.held # Now.held
    /\ Was.available # Now.available

\* C4: a successful Chargeback of an id recorded with amount X decreases
\* held by X, leaves available as it was and locks the account; an account
\* that is locked stays locked, and a Deposit or Withdrawal on a locked
\* account fails with LockedAccount and leaves it unchanged.
C4_ChargebackLocks ==
    /\ (Processed /\ rec.kind = "chargeback" /\ result = "Ok") =>
          /\ Ok(Now.held) = MoneySub(Was.held, Recorded)
          /\ Now.available = Was.available
          /\ Now.locked
    /\ \A c \in DOMAIN before.accounts :
          before.accounts[c].locked => c \in DOMAIN accounts /\ accounts[c].locked
    /\ (Processed /\ rec.kind \in {"deposit", "withdrawal"} /\ Was.locked) =>
          /\ result = "LockedAccount"
          /\ Now = Was
          /\ amounts = before.amounts

\* A deposit refused on an account that was credited, disputed and charged
\* back: it is locked and empty.
C4_Witness ==
    /\ rec.kind = "deposit"
    /\ result = "LockedAccount"
    /\ Was.locked
    /\ Was.available = Money(0)
    /\ Was.held = Money(0)
    /\ deposited # {}

\* C5 as stated: a Withdrawal of more than available fails with
\* InsufficientFunds and leaves the account unchanged, whatever the state
\* of the account.
C5_Original ==
    (Processed /\ rec.kind = "withdrawal" /\ Lt(Was.available, Amount)) =>
        /\ result = "InsufficientFunds"
        /\ Now = Was

\* C5, amended: a Withdrawal of more than available fails and leaves the
\* account unchanged; the failure is LockedAccount on a locked account,
\* else Overflow when available - amount is no i64, else InsufficientFunds.
C5_WithdrawalBeyondAvailableFails ==
    (Processed /\ rec.kind = "withdrawal" /\ Lt(Was.available, Amount)) =>
        /\ Now = Was
        /\ amounts = before.amounts
        /\ result = IF Was.locked THEN "LockedAccount"
                    ELSE IF ~IsOk(MoneySub(Was.available, Amount)) THEN "Overflow"
                    ELSE "InsufficientFunds"

\* A withdrawal of more than available from an unlocked account with a
\* negative available, where the difference overflows.
C5_Witness ==
    /\ rec.kind = "withdrawal"
    /\ Processed
    /\ Lt(Was.available, Amount)
    /\ ~Was.locked
    /\ result = "Overflow"

\* C6: a Dispute, Resolve or Chargeback of an id with no entry in the
\* amount history fails with NoSuchTransaction and leaves the accounts,
\* the set of accounts and the amount history as they were.
C6_UnknownIdFails ==
    (Processed /\ Refers /\ rec.tx \notin DOMAIN before.amounts) =>
        /\ result = "NoSuchTransaction"
        /\ accounts = before.accounts
        /\ amounts = before.amounts

\* A chargeback of an unknown id naming a client that has no account,
\* while another client has one.
C6_Witness ==
    /\ rec.kind = "chargeback"
    /\ result = "NoSuchTransaction"
    /\ rec.client \notin DOMAIN accounts
    /\ DOMAIN accounts # {}

\* C7 as stated: a Dispute of an id that a Withdrawal carried fails with
\* NoSuchTransaction.
C7_Original ==
    (Processed /\ rec.kind = "dispute" /\ rec.tx \in withdrawn) =>
        result = "NoSuchTransaction"

\* C7, amended: a Dispute of an id that a Withdrawal carried and that no
\* successful Deposit carried fails with NoSuchTransaction.
C7_WithdrawalNotDisputable ==
    ( /\ Processed
      /\ rec.kind = "dispute"
      /\ rec.tx \in withdrawn
      /\ rec.tx \notin deposited )
    =>
        result = "NoSuchTransaction"

\* The dispute of the id of a withdrawal that succeeded.
C7_Witness ==
    /\ rec.kind = "dispute"
    /\ rec.tx \in withdrawn
    /\ rec.tx \notin deposited
    /\ deposited # {}
    /\ result = "NoSuchTransaction"
    /\ Lt(Was.available, Money(50000))
    /\ Lt(Money(0), Was.available)

\* The input so far is the end-to-end scenario and main has returned.
EndToEndDone == scenario = Len(EndToEnd) /\ pc = "done"

\* C8 as stated: the scenario ends with account 1 at available 3.5,
\* held 5.0, total 8.5, unlocked, and account 2 at available 3.0, held 0,
\* total 3.0, unlocked.
C8_Original ==
    EndToEndDone =>
        emitted = { [client |-> 1, available |-> Money(35000), held |-> Money(50000),
                     total |-> Money(85000), locked |-> FALSE],
                    [client |-> 2, available |-> Money(30000), held |-> Money(0),
                     total |-> Money(30000), locked |-> FALSE] }

\* C8, amended: the scenario ends with account 1 at available -1.5,
\* held 5.0, total 3.5, unlocked, and account 2 at available 3.0, held 0,
\* total 3.0, unlocked.
C8_EndToEnd ==
    EndToEndDone =>
        emitted = { [client |-> 1, available |-> Money(-15000), held |-> Money(50000),
                     total |-> Money(35000), locked |-> FALSE],
                    [client |-> 2, available |-> Money(30000), held |-> Money(0),
                     total |-> Money(30000), locked |-> FALSE] }

C8_Witness == EndToEndDone /\ i = Len(EndToEnd) /\ warnings = 0

\* C9: once a call of process has failed and its warning is printed, a
\* run that has left the loop has handed every record to process and is in
\* the output phase or past it.  The failures of the run's input and
\* output are set apart: a record that cannot be read, a record of an
\* unknown type, a warning or an output that cannot be written.
C9_Original ==
    (warnings > 0 /\ pc \notin {"loop", "stderr_panic"}
       /\ result \notin {"ReadError", "UnknownKind", "WriteError"}) =>
        /\ pc \in {"output", "done", "total_panic"}
        /\ handled = i

\* C10: a deposit or withdrawal record without an amount does not stop the
\* run.
C10_Original == result = "MissingAmount" => pc = "loop"

\* The latest call of Bank::process returned before Bank::account was
\* reached: a Dispute, Resolve or Chargeback of an id with no entry.
Unreached == Refers /\ rec.tx \notin DOMAIN before.amounts

\* C11 as stated: every client named by a transaction handed to process,
\* whichever the variant and however the call ended, has an account.
C11_Original == referenced \subseteq DOMAIN accounts

\* C11, amended: a call of process creates the account of its client, as
\* Account::new makes it, unless it is a Dispute, Resolve or Chargeback of
\* an id the history has no entry for, which fails before any account is
\* looked up and creates none; no call creates another account or deletes
\* one; and a run that returns has written one record for each account.
C11_AccountCreatedOnReference ==
    /\ DOMAIN accounts \subseteq referenced
    /\ \A c \in DOMAIN accounts : accounts[c].client_id = c
    /\ Processed =>
          /\ DOMAIN accounts =
                DOMAIN before.accounts \cup (IF Unreached THEN {} ELSE {rec.client})
          /\ (Failed /\ ~Unreached /\ rec.client \notin DOMAIN before.accounts) =>
                accounts[rec.client] = AccountNew(rec.client)
    /\ pc = "done" =>
          /\ Written = DOMAIN accounts
          /\ Cardinality(emitted) = Cardinality(DOMAIN accounts)

\* A run that returned after its transactions had named two clients, one
\* of them only in calls that failed before any account was looked up: the
\* other has an account, still as it was created, and the one record.
C11_Witness ==
    /\ pc = "done"
    /\ referenced = {1, 2}
    /\ DOMAIN accounts = {1}
    /\ Written = {1}
    /\ \E r \in emitted : r.client = 1 /\ r.available = Money(0) /\ r.held = Money(0)

\* C12: in every state of a run the available + held of every account is
\* within the Money range, and the projection of an account to its output
\* record never panics on its total.
C12_TotalNeverOverflows ==
    /\ \A c \in DOMAIN accounts : IsOk(total_balance(accounts[c]))
    /\ pc # "total_panic"

\* C13: a + b is Ok of the exact sum when the sum is an i64 and
\* Err(Overflow) otherwise, never a wrapped or saturated value; a - b
\* likewise; and when a + b is Ok, taking b from it gives a back.  The sum
\* is exact when taking either operand from it leaves the other, and on
\* small values when it is the integer sum; whether it leaves the range is
\* judged from the operands, the distance of one to the end of the range
\* against the other.
C13_CheckedArithmetic ==
    LET a == calc.a
        b == calc.b
        out == calc.out
        Plus(x, y) == Norm(x[1] + y[1], x[2] + y[2], x[3] + y[3])
        Minus(x, y) == Norm(x[1] - y[1], x[2] - y[2], x[3] - y[3])
        AddLeaves == IF Le(Money(0), b) THEN Lt(Minus(I64_MAX, b), a)
                     ELSE Lt(a, Minus(I64_MIN, b))
        SubLeaves == IF Le(Money(0), b) THEN Lt(a, Plus(I64_MIN, b))
                     ELSE Lt(Plus(I64_MAX, b), a)
    IN  /\ calc.op = "add" =>
              /\ IsOk(out) <=> ~AddLeaves
              /\ IsOk(out) =>
                    InI64(out.val) /\ Minus(out.val, b) = a /\ Minus(out.val, a) = b
              /\ ~IsOk(out) => out = Err("Overflow")
              /\ \A x, y \in SmallInputs :
                    (a = Money(x) /\ b = Money(y)) => out = Ok(Money(x + y))
              /\ (a = I64_MAX /\ b = Money(1)) => out = Err("Overflow")
              /\ (a = I64_MIN /\ b = Money(-1)) => out = Err("Overflow")
              /\ (a = I64_MAX /\ b = I64_MIN) => out = Ok(Money(-1))
        /\ calc.op = "sub" =>
              /\ IsOk(out) <=> ~SubLeaves
              /\ IsOk(out) =>
                    InI64(out.val) /\ Plus(out.val, b) = a /\ Minus(a, out.val) = b
              /\ ~IsOk(out) => out = Err("Overflow")
              /\ \A x, y \in SmallInputs :
                    (a = Money(x) /\ b = Money(y)) => out = Ok(Money(x - y))
              /\ (a = I64_MIN /\ b = Money(1)) => out = Err("Overflow")
              /\ (a = I64_MAX /\ b = Money(-1)) => out = Err("Overflow")
              /\ (a = Money(0) /\ b = I64_MIN) => out = Err("Overflow")
              /\ (a = Money(-1) /\ b = I64_MIN) => out = Ok(I64_MAX)
        /\ calc.op = "add_sub" => out = Ok(a)

\* i64::MAX - 1 plus 1 was i64::MAX, and taking the 1 from it gave
\* i64::MAX - 1 back.
C13_Witness ==
    /\ calc.op = "add_sub"
    /\ calc.a = << 922, 33720368, 54775806 >>
    /\ calc.b = Money(1)
    /\ calc.out = Ok(<< 922, 33720368, 54775806 >>)

\* C14: the text of a Money value m, i64::MIN included, is a '-' exactly
\* when m < 0, then the decimal digits of |m| div 10000 with no leading
\* zero, a '.', and exactly four digits of |m| mod 10000: read back as a
\* signed number of ten-thousandths, the text is m.  0 is 0.0000, 1 is
\* 0.0001, -1 is -0.0001, 12345 is 1.2345 and -12345 is -1.2345.
C14_ToText ==
    LET m == calc.a
        text == calc.out
        neg == text[1] = "-"
        body == IF neg THEN Tail(text) ELSE text
        k == Len(body) - 5
        Value(ch) == CHOOSE d \in 0..9 : Digit(d) = ch
        digits == SubSeq(body, 1, k) \o SubSeq(body, k + 2, k + 5)
        wide == [j \in 1..24 |-> IF j <= 20 - k THEN 0 ELSE Value(digits[j - (20 - k)])]
        Limb(from) ==
            wide[from] * 10^7 + wide[from + 1] * 10^6 + wide[from + 2] * 10^5
            + wide[from + 3] * 10^4 + wide[from + 4] * 10^3 + wide[from + 5] * 10^2
            + wide[from + 6] * 10 + wide[from + 7]
        read == IF neg THEN Norm(-Limb(1), -Limb(9), -Limb(17))
                ELSE << Limb(1), Limb(9), Limb(17) >>
    IN  calc.op = "to_text" =>
        /\ neg <=> Lt(m, Money(0))
        /\ k \in 1..15
        /\ body[k + 1] = "."
        /\ \A j \in 1..Len(body) : j # k + 1 => body[j] \in { Digit(d) : d \in 0..9 }
        /\ k > 1 => body[1] # "0"
        /\ read = m
        /\ m = Money(0) => text = << "0", ".", "0", "0", "0", "0" >>
        /\ m = Money(1) => text = << "0", ".", "0", "0", "0", "1" >>
        /\ m = Money(-1) => text = << "-", "0", ".", "0", "0", "0", "1" >>
        /\ m = Money(12345) => text = << "1", ".", "2", "3", "4", "5" >>
        /\ m = Money(-12345) => text = << "-", "1", ".", "2", "3", "4", "5" >>
        /\ m = Money(-10000) => text = << "-", "1", ".", "0", "0", "0", "0" >>
        /\ m = Money(100000000) => text = << "1", "0", "0", "0", "0", ".", "0", "0", "0", "0" >>
        /\ m = I64_MIN =>
              text = << "-", "9", "2", "2", "3", "3", "7", "2", "0", "3", "6", "8", "5",
                        "4", "7", "7", ".", "5", "8", "0", "8" >>
        /\ m = I64_MAX =>
              text = << "9", "2", "2", "3", "3", "7", "2", "0", "3", "6", "8", "5", "4",
                        "7", "7", ".", "5", "8", "0", "7" >>

\* The text of i64::MIN.
C14_Witness ==
    /\ calc.op = "to_text"
    /\ calc.a = I64_MIN
    /\ calc.out = << "-", "9", "2", "2", "3", "3", "7", "2", "0", "3", "6", "8", "5",
                    "4", "7", "7", ".", "5", "8", "0", "8" >>

\* C15: after a successful Withdrawal the available of the account is the
\* former available less the amount and is not negative; a Withdrawal
\* whose available less the amount is negative does not succeed and
\* leaves the account as it was.
C15_WithdrawalKeepsAvailable ==
    LET left == Norm(Was.available[1] - Amount[1], Was.available[2] - Amount[2],
                     Was.available[3] - Amount[3])
    IN  (Processed /\ rec.kind = "withdrawal") =>
            /\ result = "Ok" => Now.available = left /\ Le(Money(0), Now.available)
            /\ Lt(left, Money(0)) => Failed /\ Now = Was

\* A successful Withdrawal of all that was available, with an amount held.
C15_Witness ==
    /\ rec.kind = "withdrawal"
    /\ result = "Ok"
    /\ Lt(Money(0), Amount)
    /\ Was.available = Amount
    /\ Lt(Money(0), Was.held)
    /\ Now.available = Money(0)

\* C16 as stated, for the amounts that are not negative: after a
\* successful Deposit or Withdrawal the available of the account is not
\* negative.
C16_Original ==
    (Processed /\ rec.kind \in {"deposit", "withdrawal"} /\ result = "Ok"
       /\ Le(Money(0), Amount)) =>
        Le(Money(0), Now.available)

\* C16, amended: after a successful Withdrawal the available is not
\* negative; after a successful Deposit it is the former available plus
\* the amount, so it is not negative when neither of them was, and is not
\* below the former available when the amount is not negative.
C16_AvailableAfterDepositOrWithdrawal ==
    LET sum == Norm(Was.available[1] + Amount[1], Was.available[2] + Amount[2],
                    Was.available[3] + Amount[3])
    IN  /\ (Processed /\ rec.kind = "withdrawal" /\ result = "Ok") =>
              Le(Money(0), Now.available)
        /\ (Processed /\ rec.kind = "deposit" /\ result = "Ok") =>
              /\ Now.available = sum
              /\ (Le(Money(0), Was.available) /\ Le(Money(0), Amount)) =>
                    Le(Money(0), Now.available)
              /\ Le(Money(0), Amount) => Le(Was.available, Now.available)

\* A successful Deposit of a positive amount into an account whose
\* available a dispute had made negative, and which it leaves negative.
C16_Witness ==
    /\ rec.kind = "deposit"
    /\ result = "Ok"
    /\ Lt(Money(0), Amount)
    /\ Lt(Was.available, Money(0))
    /\ Lt(Money(0), Was.held)
    /\ Lt(Now.available, Money(0))

\* C17: the amount history has an entry for exactly the ids of the
\* Deposits that succeeded, each entry the amount of the latest of them;
\* a call of process that is not a Deposit, or that fails, leaves the
\* history as it was, and no call removes or changes the entry of another
\* id.
C17_HistoryOfSuccessfulDeposits ==
    /\ DOMAIN amounts = DOMAIN latest
    /\ DOMAIN amounts = deposited
    /\ \A id \in DOMAIN amounts : amounts[id] = latest[id].amount
    /\ (rec.kind # "deposit" \/ result # "Ok") => amounts = before.amounts
    /\ (Processed /\ rec.kind = "deposit" /\ result = "Ok") =>
          /\ DOMAIN amounts = DOMAIN before.amounts \cup {rec.tx}
          /\ amounts[rec.tx] = Amount
          /\ \A id \in DOMAIN before.amounts \ {rec.tx} :
                amounts[id] = before.amounts[id]

\* A second successful Deposit of an id, by another client and of another
\* amount: the entry is now the second amount.
C17_Witness ==
    /\ rec.kind = "deposit"
    /\ result = "Ok"
    /\ rec.tx \in DOMAIN before.amounts
    /\ before.amounts[rec.tx] # Amount
    /\ amounts[rec.tx] = Amount
    /\ latest[rec.tx].client = rec.client
    /\ Cardinality(DOMAIN accounts) = 2

\* C18: an account is created unlocked; an account that was locked before
\* a step is locked after it, whatever the step; and an account that was
\* not is locked after it only when the step is a successful Chargeback
\* on that account: a Chargeback that fails leaves the lock as it was.
C18_LockedMonotone ==
    /\ \A c \in Clients : ~AccountNew(c).locked
    /\ \A c \in DOMAIN accounts \cup DOMAIN before.accounts :
          /\ AccountIn(before, c).locked => AccountIn(Bank, c).locked
          /\ (AccountIn(Bank, c).locked /\ ~AccountIn(before, c).locked) =>
                /\ Processed
                /\ rec.kind = "chargeback"
                /\ result = "Ok"
                /\ rec.client = c
    /\ (Processed /\ rec.kind = "chargeback" /\ Failed) => Now.locked = Was.locked

\* A successful Dispute on a locked account: its balances change and it
\* is still locked.
C18_Witness ==
    /\ rec.kind = "dispute"
    /\ result = "Ok"
    /\ Was.locked
    /\ Now.locked
    /\ Now.held # Was.held

\* C19: a step changes no account but that of the client its record
\* names, and creates no other.  When a successful Dispute, Resolve or
\* Chargeback names another client than the one whose Deposit recorded
\* the id, it is in the named client's account that held moves by the
\* recorded amount, and the depositor's account is as it was.
C19_OnlyNamedAccountChanges ==
    /\ \A c \in (DOMAIN accounts \cup DOMAIN before.accounts) \ {rec.client} :
          /\ c \in DOMAIN before.accounts
          /\ c \in DOMAIN accounts
          /\ accounts[c] = before.accounts[c]
    /\ (Processed /\ Refers /\ result = "Ok") =>
          LET depositor == latest[rec.tx].client
          IN  depositor # rec.client =>
                /\ accounts[depositor] = before.accounts[depositor]
                /\ Ok(Now.held) = IF rec.kind = "dispute"
                                  THEN MoneyAdd(Was.held, Recorded)
                                  ELSE MoneySub(Was.held, Recorded)
                /\ Now.client_id = rec.client

\* A successful Chargeback by a client of an id another client deposited:
\* the depositor still has the amount available, and the named client's
\* account is the one charged and locked.
C19_Witness ==
    /\ rec.kind = "chargeback"
    /\ result = "Ok"
    /\ latest[rec.tx].client # rec.client
    /\ accounts[latest[rec.tx].client].available = Recorded
    /\ ~accounts[latest[rec.tx].client].locked
    /\ Recorded # Money(0)
    /\ Now.held # Was.held
    /\ Now.locked

\* C20: for every account, available + held, as an integer of any size, is
\* the sum of the amounts of the successful Deposits to it less those of
\* its successful Withdrawals and of the successful Chargebacks on it; a
\* Dispute or a Resolve, successful or not, leaves available + held as it
\* was.
C20_Conservation ==
    LET Total(account) ==
            Norm(account.available[1] + account.held[1],
                 account.available[2] + account.held[2],
                 account.available[3] + account.held[3])
    IN  /\ DOMAIN net \subseteq DOMAIN accounts
        /\ \A c \in DOMAIN accounts :
              Total(accounts[c]) = IF c \in DOMAIN net THEN net[c] ELSE Money(0)
        /\ (Processed /\ rec.kind \in {"dispute", "resolve"}) => Total(Now) = Total(Was)

\* A successful Chargeback on an account that had two Deposits, the one
\* charged back disputed before: what is left is the other Deposit.
C20_Witness ==
    /\ rec.kind = "chargeback"
    /\ result = "Ok"
    /\ Was.held = Recorded
    /\ Lt(Money(0), Recorded)
    /\ Now.held = Money(0)
    /\ Lt(Money(0), Now.available)
    /\ net[rec.client] = Now.available
    /\ Cardinality(DOMAIN amounts) = 2

=============================================================================
